---- MODULE Spec2Model ----
(***************************************************************************)
(* evo-common: the message schemas of the agent coordination protocol      *)
(* (src/src/messages.rs).  The crate defines the event payloads and their  *)
(* serde encoding; it holds no task, run or memory state and no function   *)
(* that applies a message to such state.  The model is therefore the wire: *)
(* a producer encodes a typed message (serde_json::to_string), or a        *)
(* foreign producer publishes an arbitrary JSON object, and a consumer     *)
(* decodes it (serde_json::from_str) into the typed message or a schema    *)
(* error.                                                                  *)
(*                                                                         *)
(* JSON strings are sequences of one-character strings, so that the        *)
(* snake_case renaming of enum variants is computed, not tabulated.        *)
(***************************************************************************)
EXTENDS Integers, Sequences, FiniteSets, TLC

VARIABLES
    wire,      \* the event in flight: None, or Some([event, body]) with a JSON body
    sent,      \* the typed message the body was encoded from; None for a raw body
    decoded    \* the consumer's last result: None, or Some(Ok(msg)) / Some(Err)

vars == <<wire, sent, decoded>>

(***************************************************************************)
(* Bounds of the model.                                                    *)
(***************************************************************************)
MaxVec == 1

(***************************************************************************)
(* Option<T>: None is the empty sequence, Some(x) the one-element one.     *)
(***************************************************************************)
None == <<>>

Some(x) == <<x>>

(***************************************************************************)
(* JSON values (serde_json::Value).                                        *)
(***************************************************************************)
JNull == [k |-> "null", v |-> <<>>]

JStr(s) == [k |-> "string", v |-> s]

JNum(n) == [k |-> "number", v |-> n]

JObj(m) == [k |-> "object", v |-> m]

EmptyMap == [f \in {} |-> JNull]

(***************************************************************************)
(* Enum variants, by their Rust names, and the spelling of each name.      *)
(***************************************************************************)
TaskStatus == {"Pending", "InProgress", "Completed", "Failed", "Cancelled"}

PipelineStage == {"Learning", "Building", "PreLoad", "Evaluation", "SkillManage"}

PipelineRunStatus == {"Running", "Completed", "Failed", "TimedOut"}

MemoryScope == {"System", "Agent", "Pipeline", "Skill"}

MemoryCategory == {"Case", "Pattern", "Fact", "Preference", "Resource", "Event"}

RunnerStatus == {"Starting", "Ready", "Busy", "Error", "Shutting"}

ProviderType == {"OpenAiCompatible", "Anthropic", "Cursor", "ClaudeCode", "CodexCli"}

\* the enums with a payload-carrying variant: their unit variants, and the
\* variants that carry a String
AgentRoleUnit == {"SkillManage", "Learning", "PreLoad", "Building", "Evaluation"}

AgentRoleNewtype == {"User"}

SkillResultUnit == {"Success"}

SkillResultNewtype == {"Failure", "Partial"}

Spelling(name) ==
    CASE name = "Pending" -> <<"P","e","n","d","i","n","g">>
      [] name = "InProgress" -> <<"I","n","P","r","o","g","r","e","s","s">>
      [] name = "Completed" -> <<"C","o","m","p","l","e","t","e","d">>
      [] name = "Failed" -> <<"F","a","i","l","e","d">>
      [] name = "Cancelled" -> <<"C","a","n","c","e","l","l","e","d">>
      [] name = "Learning" -> <<"L","e","a","r","n","i","n","g">>
      [] name = "Building" -> <<"B","u","i","l","d","i","n","g">>
      [] name = "PreLoad" -> <<"P","r","e","L","o","a","d">>
      [] name = "Evaluation" -> <<"E","v","a","l","u","a","t","i","o","n">>
      [] name = "SkillManage" -> <<"S","k","i","l","l","M","a","n","a","g","e">>
      [] name = "Running" -> <<"R","u","n","n","i","n","g">>
      [] name = "TimedOut" -> <<"T","i","m","e","d","O","u","t">>
      [] name = "System" -> <<"S","y","s","t","e","m">>
      [] name = "Agent" -> <<"A","g","e","n","t">>
      [] name = "Pipeline" -> <<"P","i","p","e","l","i","n","e">>
      [] name = "Skill" -> <<"S","k","i","l","l">>
      [] name = "Case" -> <<"C","a","s","e">>
      [] name = "Pattern" -> <<"P","a","t","t","e","r","n">>
      [] name = "Fact" -> <<"F","a","c","t">>
      [] name = "Preference" -> <<"P","r","e","f","e","r","e","n","c","e">>
      [] name = "Resource" -> <<"R","e","s","o","u","r","c","e">>
      [] name = "Event" -> <<"E","v","e","n","t">>
      [] name = "User" -> <<"U","s","e","r">>
      [] name = "Starting" -> <<"S","t","a","r","t","i","n","g">>
      [] name = "Ready" -> <<"R","e","a","d","y">>
      [] name = "Busy" -> <<"B","u","s","y">>
      [] name = "Error" -> <<"E","r","r","o","r">>
      [] name = "Shutting" -> <<"S","h","u","t","t","i","n","g">>
      [] name = "Success" -> <<"S","u","c","c","e","s","s">>
      [] name = "Failure" -> <<"F","a","i","l","u","r","e">>
      [] name = "Partial" -> <<"P","a","r","t","i","a","l">>
      [] name = "OpenAiCompatible" ->
           <<"O","p","e","n","A","i","C","o","m","p","a","t","i","b","l","e">>
      [] name = "Anthropic" -> <<"A","n","t","h","r","o","p","i","c">>
      [] name = "Cursor" -> <<"C","u","r","s","o","r">>
      [] name = "ClaudeCode" -> <<"C","l","a","u","d","e","C","o","d","e">>
      [] name = "CodexCli" -> <<"C","o","d","e","x","C","l","i">>

(***************************************************************************)
(* #[serde(rename_all = "snake_case")]: every upper-case letter is         *)
(* lowered, and preceded by an underscore unless it is the first letter.   *)
(***************************************************************************)
Upper == <<"A","B","C","D","E","F","G","H","I","J","K","L","M",
           "N","O","P","Q","R","S","T","U","V","W","X","Y","Z">>

Lower == <<"a","b","c","d","e","f","g","h","i","j","k","l","m",
           "n","o","p","q","r","s","t","u","v","w","x","y","z">>

IsUpper(c) == \E i \in 1..Len(Upper) : Upper[i] = c

ToLower(c) ==
    IF IsUpper(c) THEN Lower[CHOOSE i \in 1..Len(Upper) : Upper[i] = c] ELSE c

RECURSIVE SnakeFrom(_, _)
SnakeFrom(s, i) ==
    IF i > Len(s) THEN <<>>
    ELSE (IF IsUpper(s[i]) /\ i > 1 THEN <<"_">> ELSE <<>>)
         \o <<ToLower(s[i])>> \o SnakeFrom(s, i + 1)

\* a renaming that lowers the letters but puts no underscore between words
snake_case_flat(name) ==
    [i \in 1..Len(Spelling(name)) |-> ToLower(Spelling(name)[i])]

snake_case(name) == SnakeFrom(Spelling(name), 1)

(***************************************************************************)
(* Sample strings of the model.                                            *)
(***************************************************************************)
Empty == <<>>

t1 == <<"t","1">>

a1 == <<"a","1">>

a2 == <<"a","2">>

r1 == <<"r","1">>

x1 == <<"x","1">>

build == <<"b","u","i","l","d">>

bogus == <<"b","o","g","u","s">>

in_progress == <<"i","n","_","p","r","o","g","r","e","s","s">>

InProgressTitled == <<"I","n","P","r","o","g","r","e","s","s">>

pre_load == <<"p","r","e","_","l","o","a","d">>

timed_out == <<"t","i","m","e","d","_","o","u","t">>

building == <<"b","u","i","l","d","i","n","g">>

agent == <<"a","g","e","n","t">>

pattern == <<"p","a","t","t","e","r","n">>

JArr(s) == [k |-> "array", v |-> s]

(***************************************************************************)
(* Field decoders of the derived Deserialize.  Each yields None on a       *)
(* schema error and Some(value) otherwise.  o is the map of a JSON object. *)
(***************************************************************************)
Has(o, f) == f \in DOMAIN o

\* a field of type String without a default: required
de_String(o, f) ==
    IF Has(o, f) /\ o[f].k = "string" THEN Some(o[f].v) ELSE None

\* #[serde(default)] String: "" when the field is missing
de_String_default(o, f) ==
    IF ~Has(o, f) THEN Some(Empty)
    ELSE IF o[f].k = "string" THEN Some(o[f].v) ELSE None

\* Option<String>: None when the field is missing or null
de_Option_String(o, f) ==
    IF ~Has(o, f) \/ o[f].k = "null" THEN Some(None)
    ELSE IF o[f].k = "string" THEN Some(Some(o[f].v)) ELSE None

\* a unit-variant enum renamed to snake_case: the token must name a variant
de_variant(E, j) ==
    IF j.k = "string" /\ \E e \in E : snake_case(e) = j.v
    THEN Some(CHOOSE e \in E : snake_case(e) = j.v)
    ELSE None

de_Enum(E, o, f) == IF Has(o, f) THEN de_variant(E, o[f]) ELSE None

de_Option_Enum(E, o, f) ==
    IF ~Has(o, f) \/ o[f].k = "null" THEN Some(None)
    ELSE IF de_variant(E, o[f]) = None THEN None
    ELSE Some(de_variant(E, o[f]))

\* serde_json::Value without a default: required, any value (null included)
de_Value(o, f) == IF Has(o, f) THEN Some(o[f]) ELSE None

default_empty_object == JObj(EmptyMap)

\* #[serde(default = "default_empty_object")] Value: the default is used
\* only when the field is missing; a present value is kept as it is
de_Value_default_empty_object(o, f) ==
    IF Has(o, f) THEN Some(o[f]) ELSE Some(default_empty_object)

\* Option<serde_json::Value>: None when the field is missing or null
de_Option_Value(o, f) ==
    IF ~Has(o, f) \/ o[f].k = "null" THEN Some(None) ELSE Some(Some(o[f]))

\* HashMap<String, Value> without a default: required, an object
de_HashMap(o, f) ==
    IF Has(o, f) /\ o[f].k = "object" THEN Some(o[f].v) ELSE None

\* #[serde(default)] f64: 0 when missing
de_f64_default(o, f) ==
    IF ~Has(o, f) THEN Some(0)
    ELSE IF o[f].k = "number" THEN Some(o[f].v) ELSE None

\* #[serde(default)] Vec<String>: empty when missing
de_Vec_String_default(o, f) ==
    IF ~Has(o, f) THEN Some(<<>>)
    ELSE IF o[f].k = "array" /\ \A i \in 1..Len(o[f].v) : o[f].v[i].k = "string"
         THEN Some([i \in 1..Len(o[f].v) |-> o[f].v[i].v])
         ELSE None

\* Option<T> written by the derived Serialize: null for None
ser_Option_String(x) == IF x = None THEN JNull ELSE JStr(x[1])

ser_Option_Enum(x) == IF x = None THEN JNull ELSE JStr(snake_case(x[1]))

ser_Option_Value(x) == IF x = None THEN JNull ELSE x[1]

Ok(m) == [ok |-> TRUE, msg |-> m]

Err == [ok |-> FALSE, msg |-> <<>>]

AllSome(fields) == \A i \in 1..Len(fields) : fields[i] # None

(***************************************************************************)
(* An enum value on its own (serde_json::to_string(&status)).  A value is  *)
(* [ty, variant, arg]: arg is None for a unit variant and Some(string) for *)
(* a newtype variant.  serde's externally tagged form writes a unit        *)
(* variant as the string token and a newtype variant as {token: payload}.  *)
(***************************************************************************)
EnumTypes ==
    {"AgentRole", "RunnerStatus", "SkillResult", "PipelineStage",
     "PipelineRunStatus", "TaskStatus", "MemoryScope", "MemoryCategory",
     "ProviderType"}

UnitVariants(ty) ==
    CASE ty = "AgentRole" -> AgentRoleUnit
      [] ty = "RunnerStatus" -> RunnerStatus
      [] ty = "SkillResult" -> SkillResultUnit
      [] ty = "PipelineStage" -> PipelineStage
      [] ty = "PipelineRunStatus" -> PipelineRunStatus
      [] ty = "TaskStatus" -> TaskStatus
      [] ty = "MemoryScope" -> MemoryScope
      [] ty = "MemoryCategory" -> MemoryCategory
      [] ty = "ProviderType" -> ProviderType

NewtypeVariants(ty) ==
    CASE ty = "AgentRole" -> AgentRoleNewtype
      [] ty = "SkillResult" -> SkillResultNewtype
      [] OTHER -> {}

Labels == {x1, bogus}

EnumValues(ty) ==
    [ty : {ty}, variant : UnitVariants(ty), arg : {None}]
    \cup [ty : {ty}, variant : NewtypeVariants(ty), arg : {Some(l) : l \in Labels}]

ser_enum(val) ==
    IF val.arg = None THEN JStr(snake_case(val.variant))
    ELSE JObj([key \in {snake_case(val.variant)} |-> JStr(val.arg[1])])

de_enum(ty, j) ==
    IF j.k = "string"
    THEN IF \E e \in UnitVariants(ty) : snake_case(e) = j.v
         THEN Ok([ty |-> ty,
                  variant |-> CHOOSE e \in UnitVariants(ty) : snake_case(e) = j.v,
                  arg |-> None])
         ELSE Err
    ELSE IF j.k = "object" /\ Cardinality(DOMAIN j.v) = 1
    THEN LET key == CHOOSE key \in DOMAIN j.v : TRUE
             val == j.v[key]
         IN  IF val.k = "string"
                /\ \E e \in NewtypeVariants(ty) : snake_case(e) = key
             THEN Ok([ty |-> ty,
                      variant |-> CHOOSE e \in NewtypeVariants(ty) :
                                      snake_case(e) = key,
                      arg |-> Some(val.v)])
             ELSE IF val.k = "null"
                     /\ \E e \in UnitVariants(ty) : snake_case(e) = key
             THEN Ok([ty |-> ty,
                      variant |-> CHOOSE e \in UnitVariants(ty) :
                                      snake_case(e) = key,
                      arg |-> None])
             ELSE Err
    ELSE Err

user == <<"u","s","e","r">>

learning == <<"l","e","a","r","n","i","n","g">>

claude_code == <<"c","l","a","u","d","e","_","c","o","d","e">>

RawEnumBodies ==
    << JStr(bogus), JStr(InProgressTitled), JStr(user), JStr(pre_load),
      JNum(1), JNull,
      JObj([key \in {user} |-> JStr(x1)]),
      JObj([key \in {user} |-> JNull]),
      JObj([key \in {learning} |-> JNull]),
      JObj([key \in {bogus} |-> JStr(x1)]) >>

(***************************************************************************)
(* The typed messages and their derived Serialize / Deserialize.  A        *)
(* derived Serialize writes every field; a derived Deserialize ignores     *)
(* unknown fields.                                                         *)
(***************************************************************************)
ser_TaskCreate(m) ==
    JObj([f \in {"task_type", "agent_id", "payload", "parent_id"} |->
          CASE f = "task_type" -> JStr(m.task_type)
            [] f = "agent_id" -> ser_Option_String(m.agent_id)
            [] f = "payload" -> m.payload
            [] f = "parent_id" -> ser_Option_String(m.parent_id)])

de_TaskCreate(j) ==
    IF j.k # "object" THEN Err
    ELSE LET o == j.v
             task_type == de_String(o, "task_type")
             agent_id == de_Option_String(o, "agent_id")
             payload == de_Value_default_empty_object(o, "payload")
             parent_id == de_Option_String(o, "parent_id")
         IN  IF AllSome(<<task_type, agent_id, payload, parent_id>>)
             THEN Ok([task_type |-> task_type[1], agent_id |-> agent_id[1],
                      payload |-> payload[1], parent_id |-> parent_id[1]])
             ELSE Err

ser_TaskUpdate(m) ==
    JObj([f \in {"task_id", "status", "agent_id", "payload"} |->
          CASE f = "task_id" -> JStr(m.task_id)
            [] f = "status" -> ser_Option_Enum(m.status)
            [] f = "agent_id" -> ser_Option_String(m.agent_id)
            [] f = "payload" -> ser_Option_Value(m.payload)])

de_TaskUpdate(j) ==
    IF j.k # "object" THEN Err
    ELSE LET o == j.v
             task_id == de_String(o, "task_id")
             status == de_Option_Enum(TaskStatus, o, "status")
             agent_id == de_Option_String(o, "agent_id")
             payload == de_Option_Value(o, "payload")
         IN  IF AllSome(<<task_id, status, agent_id, payload>>)
             THEN Ok([task_id |-> task_id[1], status |-> status[1],
                      agent_id |-> agent_id[1], payload |-> payload[1]])
             ELSE Err

ser_PipelineNext(m) ==
    JObj([f \in {"stage", "artifact_id", "metadata"} |->
          CASE f = "stage" -> JStr(snake_case(m.stage))
            [] f = "artifact_id" -> JStr(m.artifact_id)
            [] f = "metadata" -> JObj(m.metadata)])

de_PipelineNext(j) ==
    IF j.k # "object" THEN Err
    ELSE LET o == j.v
             stage == de_Enum(PipelineStage, o, "stage")
             artifact_id == de_String(o, "artifact_id")
             metadata == de_HashMap(o, "metadata")
         IN  IF AllSome(<<stage, artifact_id, metadata>>)
             THEN Ok([stage |-> stage[1], artifact_id |-> artifact_id[1],
                      metadata |-> metadata[1]])
             ELSE Err

ser_PipelineStageResult(m) ==
    JObj([f \in {"run_id", "stage", "agent_id", "status", "artifact_id",
                 "output", "error"} |->
          CASE f = "run_id" -> JStr(m.run_id)
            [] f = "stage" -> JStr(snake_case(m.stage))
            [] f = "agent_id" -> JStr(m.agent_id)
            [] f = "status" -> JStr(snake_case(m.status))
            [] f = "artifact_id" -> JStr(m.artifact_id)
            [] f = "output" -> m.output
            [] f = "error" -> ser_Option_String(m.error)])

de_PipelineStageResult(j) ==
    IF j.k # "object" THEN Err
    ELSE LET o == j.v
             run_id == de_String(o, "run_id")
             stage == de_Enum(PipelineStage, o, "stage")
             agent_id == de_String(o, "agent_id")
             status == de_Enum(PipelineRunStatus, o, "status")
             artifact_id == de_String(o, "artifact_id")
             output == de_Value(o, "output")
             error == de_Option_String(o, "error")
         IN  IF AllSome(<<run_id, stage, agent_id, status, artifact_id,
                          output, error>>)
             THEN Ok([run_id |-> run_id[1], stage |-> stage[1],
                      agent_id |-> agent_id[1], status |-> status[1],
                      artifact_id |-> artifact_id[1], output |-> output[1],
                      error |-> error[1]])
             ELSE Err

ser_MemoryTierEntry(e) ==
    JObj([f \in {"tier", "content"} |->
          IF f = "tier" THEN JStr(e.tier) ELSE JStr(e.content)])

de_MemoryTierEntry(j) ==
    IF j.k # "object" THEN Err
    ELSE LET tier == de_String(j.v, "tier")
             content == de_String(j.v, "content")
         IN  IF AllSome(<<tier, content>>)
             THEN Ok([tier |-> tier[1], content |-> content[1]])
             ELSE Err

\* #[serde(default)] Vec<MemoryTierEntry>: empty when missing
de_Vec_MemoryTierEntry_default(o, f) ==
    IF ~Has(o, f) THEN Some(<<>>)
    ELSE IF o[f].k = "array"
            /\ \A i \in 1..Len(o[f].v) : de_MemoryTierEntry(o[f].v[i]).ok
         THEN Some([i \in 1..Len(o[f].v) |-> de_MemoryTierEntry(o[f].v[i]).msg])
         ELSE None

ser_MemoryStore(m) ==
    JObj([f \in {"scope", "category", "key", "metadata", "tags", "agent_id",
                 "run_id", "skill_id", "relevance_score", "tiers", "task_id"} |->
          CASE f = "scope" -> JStr(snake_case(m.scope))
            [] f = "category" -> JStr(snake_case(m.category))
            [] f = "key" -> JStr(m.key)
            [] f = "metadata" -> m.metadata
            [] f = "tags" -> JArr([i \in 1..Len(m.tags) |-> JStr(m.tags[i])])
            [] f = "agent_id" -> JStr(m.agent_id)
            [] f = "run_id" -> JStr(m.run_id)
            [] f = "skill_id" -> JStr(m.skill_id)
            [] f = "relevance_score" -> JNum(m.relevance_score)
            [] f = "tiers" ->
                 JArr([i \in 1..Len(m.tiers) |-> ser_MemoryTierEntry(m.tiers[i])])
            [] f = "task_id" -> ser_Option_String(m.task_id)])

de_MemoryStore(j) ==
    IF j.k # "object" THEN Err
    ELSE LET o == j.v
             scope == de_Enum(MemoryScope, o, "scope")
             category == de_Enum(MemoryCategory, o, "category")
             key == de_String_default(o, "key")
             metadata == de_Value_default_empty_object(o, "metadata")
             tags == de_Vec_String_default(o, "tags")
             agent_id == de_String_default(o, "agent_id")
             run_id == de_String_default(o, "run_id")
             skill_id == de_String_default(o, "skill_id")
             relevance_score == de_f64_default(o, "relevance_score")
             tiers == de_Vec_MemoryTierEntry_default(o, "tiers")
             task_id == de_Option_String(o, "task_id")
         IN  IF AllSome(<<scope, category, key, metadata, tags, agent_id,
                          run_id, skill_id, relevance_score, tiers, task_id>>)
             THEN Ok([scope |-> scope[1], category |-> category[1],
                      key |-> key[1], metadata |-> metadata[1],
                      tags |-> tags[1], agent_id |-> agent_id[1],
                      run_id |-> run_id[1], skill_id |-> skill_id[1],
                      relevance_score |-> relevance_score[1],
                      tiers |-> tiers[1], task_id |-> task_id[1]])
             ELSE Err

default_task_limit == 50

default_memory_limit == 20

\* #[serde(default = "...")] u32: the default when the field is missing.
\* The numbers of the model are far below 2^32, so a present number is out
\* of range only when it is negative.
de_u32_default(o, f, dflt) ==
    IF ~Has(o, f) THEN Some(dflt)
    ELSE IF o[f].k = "number" /\ o[f].v >= 0 THEN Some(o[f].v)
    ELSE None

ser_TaskList(m) ==
    JObj([f \in {"limit", "status", "agent_id", "parent_id"} |->
          CASE f = "limit" -> JNum(m.limit)
            [] f = "status" -> ser_Option_Enum(m.status)
            [] f = "agent_id" -> ser_Option_String(m.agent_id)
            [] f = "parent_id" -> ser_Option_String(m.parent_id)])

de_TaskList(j) ==
    IF j.k # "object" THEN Err
    ELSE LET o == j.v
             limit == de_u32_default(o, "limit", default_task_limit)
             status == de_Option_Enum(TaskStatus, o, "status")
             agent_id == de_Option_String(o, "agent_id")
             parent_id == de_Option_String(o, "parent_id")
         IN  IF AllSome(<<limit, status, agent_id, parent_id>>)
             THEN Ok([limit |-> limit[1], status |-> status[1],
                      agent_id |-> agent_id[1], parent_id |-> parent_id[1]])
             ELSE Err

ser_MemoryQuery(m) ==
    JObj([f \in {"query", "scope", "category", "agent_id", "tier", "task_id",
                 "limit"} |->
          CASE f = "query" -> JStr(m.query)
            [] f = "scope" -> ser_Option_Enum(m.scope)
            [] f = "category" -> ser_Option_Enum(m.category)
            [] f = "agent_id" -> ser_Option_String(m.agent_id)
            [] f = "tier" -> ser_Option_String(m.tier)
            [] f = "task_id" -> ser_Option_String(m.task_id)
            [] f = "limit" -> JNum(m.limit)])

de_MemoryQuery(j) ==
    IF j.k # "object" THEN Err
    ELSE LET o == j.v
             query == de_String(o, "query")
             scope == de_Option_Enum(MemoryScope, o, "scope")
             category == de_Option_Enum(MemoryCategory, o, "category")
             agent_id == de_Option_String(o, "agent_id")
             tier == de_Option_String(o, "tier")
             task_id == de_Option_String(o, "task_id")
             limit == de_u32_default(o, "limit", default_memory_limit)
         IN  IF AllSome(<<query, scope, category, agent_id, tier, task_id, limit>>)
             THEN Ok([query |-> query[1], scope |-> scope[1],
                      category |-> category[1], agent_id |-> agent_id[1],
                      tier |-> tier[1], task_id |-> task_id[1],
                      limit |-> limit[1]])
             ELSE Err

(***************************************************************************)
(* Event names (pub mod events).                                           *)
(***************************************************************************)
PIPELINE_NEXT == "pipeline:next"

PIPELINE_STAGE_RESULT == "pipeline:stage_result"

TASK_CREATE == "task:create"

TASK_UPDATE == "task:update"

MEMORY_STORE == "memory:store"

TASK_LIST == "task:list"

MEMORY_QUERY == "memory:query"

Events == {PIPELINE_NEXT, PIPELINE_STAGE_RESULT, TASK_CREATE, TASK_UPDATE,
           MEMORY_STORE, TASK_LIST, MEMORY_QUERY}

\* the payload type each event carries
from_str(event, j) ==
    CASE event = TASK_CREATE -> de_TaskCreate(j)
      [] event = TASK_UPDATE -> de_TaskUpdate(j)
      [] event = PIPELINE_NEXT -> de_PipelineNext(j)
      [] event = PIPELINE_STAGE_RESULT -> de_PipelineStageResult(j)
      [] event = MEMORY_STORE -> de_MemoryStore(j)
      [] event = TASK_LIST -> de_TaskList(j)
      [] event = MEMORY_QUERY -> de_MemoryQuery(j)
      [] event \in EnumTypes -> de_enum(event, j)

(***************************************************************************)
(* Inputs: the typed messages producers build, and the JSON objects a      *)
(* foreign producer may publish.                                           *)
(***************************************************************************)
RECURSIVE SeqsUpTo(_, _)
SeqsUpTo(S, n) ==
    IF n = 0 THEN {<<>>}
    ELSE SeqsUpTo(S, n - 1)
         \cup {Append(q, e) : q \in {p \in SeqsUpTo(S, n - 1) : Len(p) = n - 1},
                              e \in S}

Object1 == JObj([f \in {"x"} |-> JNum(1)])

Values == {default_empty_object, Object1, JNull}

TaskCreates ==
    [task_type : {build}, agent_id : {None, Some(a1)}, payload : Values,
     parent_id : {None, Some(t1)}]

TaskUpdates ==
    [task_id : {t1}, status : {None} \cup {Some(st) : st \in TaskStatus},
     agent_id : {None, Some(a1), Some(a2)},
     payload : {None, Some(default_empty_object), Some(JNull)}]

PipelineNexts ==
    [stage : PipelineStage, artifact_id : {x1}, metadata : {EmptyMap}]

PipelineStageResults ==
    [run_id : {r1}, stage : PipelineStage, agent_id : {a1},
     status : PipelineRunStatus, artifact_id : {Empty, x1},
     output : {JNull, default_empty_object}, error : {None, Some(bogus)}]

MemoryStores ==
    [scope : MemoryScope, category : MemoryCategory, key : {Empty, x1},
     metadata : {default_empty_object, Object1},
     tags : SeqsUpTo({x1}, MaxVec), agent_id : {a1}, run_id : {Empty},
     skill_id : {Empty}, relevance_score : {0},
     tiers : SeqsUpTo({[tier |-> x1, content |-> build]}, MaxVec),
     task_id : {None, Some(t1)}]

TaskLists ==
    [limit : {0, default_task_limit}, status : {None, Some("Pending")},
     agent_id : {None, Some(a1)}, parent_id : {None, Some(t1)}]

MemoryQuerys ==
    [query : {x1}, scope : {None, Some("Agent")},
     category : {None, Some("Pattern")}, agent_id : {None, Some(a1)},
     tier : {None}, task_id : {None, Some(t1)},
     limit : {1, default_memory_limit}]

Obj(pairs) ==
    JObj([f \in {pairs[i][1] : i \in 1..Len(pairs)} |->
            pairs[CHOOSE i \in 1..Len(pairs) : pairs[i][1] = f][2]])

RawBodies ==
    << JNull,
      Obj(<<>>),
      Obj(<< <<"task_type", JStr(build)>> >>),
      Obj(<< <<"task_type", JStr(build)>>, <<"payload", JNull>> >>),
      Obj(<< <<"task_type", JStr(build)>>, <<"unknown", JStr(x1)>> >>),
      Obj(<< <<"task_id", JStr(t1)>> >>),
      Obj(<< <<"task_id", JStr(t1)>>, <<"status", JStr(in_progress)>> >>),
      Obj(<< <<"task_id", JStr(t1)>>, <<"status", JStr(InProgressTitled)>> >>),
      Obj(<< <<"task_id", JStr(t1)>>, <<"status", JStr(bogus)>> >>),
      Obj(<< <<"task_id", JNum(1)>> >>),
      Obj(<< <<"task_type", JStr(build)>>, <<"payload", JStr(x1)>> >>),
      Obj(<< <<"parent_id", JStr(t1)>> >>),
      Obj(<< <<"limit", JNull>> >>),
      Obj(<< <<"limit", JNum(-1)>> >>),
      Obj(<< <<"query", JStr(x1)>> >>),
      Obj(<< <<"query", JStr(x1)>>, <<"limit", JNum(1)>>,
             <<"scope", JStr(agent)>> >>),
      Obj(<< <<"scope", JStr(agent)>>, <<"category", JStr(pattern)>> >>),
      Obj(<< <<"stage", JStr(pre_load)>>, <<"artifact_id", JStr(x1)>>,
             <<"metadata", default_empty_object>> >>),
      Obj(<< <<"run_id", JStr(r1)>>, <<"stage", JStr(building)>>,
             <<"agent_id", JStr(a1)>>, <<"status", JStr(timed_out)>>,
             <<"artifact_id", JStr(Empty)>>, <<"output", JNull>> >>),
      Obj(<< <<"run_id", JStr(r1)>>, <<"stage", JStr(building)>>,
             <<"agent_id", JStr(a1)>>, <<"status", JStr(timed_out)>>,
             <<"artifact_id", JStr(Empty)>> >>) >>

(***************************************************************************)
(* The wire.                                                               *)
(***************************************************************************)
Init ==
    /\ wire = None
    /\ sent = None
    /\ decoded = None

EmitTaskCreate ==
    \E m \in TaskCreates :
        /\ wire = None
        /\ wire' = Some([event |-> TASK_CREATE, body |-> ser_TaskCreate(m)])
        /\ sent' = Some(m)
        /\ decoded' = None

EmitTaskUpdate ==
    \E m \in TaskUpdates :
        /\ wire = None
        /\ wire' = Some([event |-> TASK_UPDATE, body |-> ser_TaskUpdate(m)])
        /\ sent' = Some(m)
        /\ decoded' = None

EmitPipelineNext ==
    \E m \in PipelineNexts :
        /\ wire = None
        /\ wire' = Some([event |-> PIPELINE_NEXT, body |-> ser_PipelineNext(m)])
        /\ sent' = Some(m)
        /\ decoded' = None

EmitPipelineStageResult ==
    \E m \in PipelineStageResults :
        /\ wire = None
        /\ wire' = Some([event |-> PIPELINE_STAGE_RESULT,
                         body |-> ser_PipelineStageResult(m)])
        /\ sent' = Some(m)
        /\ decoded' = None

EmitMemoryStore ==
    \E m \in MemoryStores :
        /\ wire = None
        /\ wire' = Some([event |-> MEMORY_STORE, body |-> ser_MemoryStore(m)])
        /\ sent' = Some(m)
        /\ decoded' = None

EmitTaskList ==
    \E m \in TaskLists :
        /\ wire = None
        /\ wire' = Some([event |-> TASK_LIST, body |-> ser_TaskList(m)])
        /\ sent' = Some(m)
        /\ decoded' = None

EmitMemoryQuery ==
    \E m \in MemoryQuerys :
        /\ wire = None
        /\ wire' = Some([event |-> MEMORY_QUERY, body |-> ser_MemoryQuery(m)])
        /\ sent' = Some(m)
        /\ decoded' = None

\* a producer that is not this crate publishes any JSON value under an event
PublishRaw ==
    \E event \in Events, i \in 1..Len(RawBodies) :
        /\ wire = None
        /\ wire' = Some([event |-> event, body |-> RawBodies[i]])
        /\ sent' = None
        /\ decoded' = None

\* an enum value encoded on its own, decoded as its own type
EmitEnum ==
    \E ty \in EnumTypes : \E val \in EnumValues(ty) :
        /\ wire = None
        /\ wire' = Some([event |-> ty, body |-> ser_enum(val)])
        /\ sent' = Some(val)
        /\ decoded' = None

\* any JSON value offered to the decoder of an enum type
PublishRawEnum ==
    \E ty \in EnumTypes, i \in 1..Len(RawEnumBodies) :
        /\ wire = None
        /\ wire' = Some([event |-> ty, body |-> RawEnumBodies[i]])
        /\ sent' = None
        /\ decoded' = None

\* the consumer decodes the body as the payload type of the event
Receive ==
    /\ wire # None
    /\ decoded' = Some(from_str(wire[1].event, wire[1].body))
    /\ wire' = None
    /\ UNCHANGED sent

Next ==
    \/ EmitTaskCreate
    \/ EmitTaskUpdate
    \/ EmitPipelineNext
    \/ EmitPipelineStageResult
    \/ EmitMemoryStore
    \/ EmitTaskList
    \/ EmitMemoryQuery
    \/ PublishRaw
    \/ EmitEnum
    \/ PublishRawEnum
    \/ Receive

Spec == Init /\ [][Next]_vars

(***************************************************************************)
(* Properties of the enum encoding.                                        *)
(***************************************************************************)
RECURSIVE StripUnderscores(_)
StripUnderscores(s) ==
    IF s = <<>> THEN <<>>
    ELSE (IF Head(s) = "_" THEN <<>> ELSE <<Head(s)>>) \o StripUnderscores(Tail(s))

\* tok is the lower-case, underscore-separated form of the identifier id:
\* the same letters lowered, one underscore before each word after the
\* first, and nothing else
IsLowerUnderscoreForm(tok, id) ==
    /\ \A i \in 1..Len(tok) : ~IsUpper(tok[i])
    /\ StripUnderscores(tok) = [i \in 1..Len(id) |-> ToLower(id[i])]
    /\ Cardinality({i \in 1..Len(tok) : tok[i] = "_"})
         = Cardinality({i \in 2..Len(id) : IsUpper(id[i])})
    /\ \A i \in 1..Len(tok) :
         tok[i] = "_" => /\ i > 1
                         /\ i < Len(tok)
                         /\ tok[i + 1] # "_"
                         /\ IsUpper(id[i + 1 - Cardinality({h \in 1..i : tok[h] = "_"})])

\* the token an encoded enum value carries: the string itself for a unit
\* variant, the single key of the object for a newtype variant
TokenOf(j) ==
    IF j.k = "string" THEN j.v ELSE CHOOSE key \in DOMAIN j.v : TRUE

EnumOnWire == wire # None /\ sent # None /\ wire[1].event \in EnumTypes

EnumDelivered ==
    /\ wire = None
    /\ sent # None
    /\ decoded # None
    /\ "variant" \in DOMAIN sent[1]

\* C19: every variant of every protocol enum encodes to the lower-case,
\* underscore-separated form of its name (PreLoad -> pre_load, TimedOut ->
\* timed_out, InProgress -> in_progress, ClaudeCode -> claude_code), a
\* payload-carrying variant as {token: payload}; no other variant of the
\* same enum encodes to the same token; and decoding the encoded value
\* yields the value that was encoded.
C19_EnumRoundTrip ==
    /\ EnumOnWire =>
         LET val == sent[1]
             body == wire[1].body
         IN  /\ val.arg = None => body.k = "string"
             /\ val.arg # None =>
                  /\ body.k = "object"
                  /\ Cardinality(DOMAIN body.v) = 1
                  /\ body.v[TokenOf(body)] = JStr(val.arg[1])
             /\ IsLowerUnderscoreForm(TokenOf(body), Spelling(val.variant))
             /\ val.variant = "PreLoad" => TokenOf(body) = pre_load
             /\ val.variant = "TimedOut" => TokenOf(body) = timed_out
             /\ val.variant = "InProgress" => TokenOf(body) = in_progress
             /\ val.variant = "ClaudeCode" => TokenOf(body) = claude_code
             /\ \A other \in EnumValues(val.ty) :
                  TokenOf(ser_enum(other)) = TokenOf(body)
                      => other.variant = val.variant
    /\ EnumDelivered => decoded[1].ok /\ decoded[1].msg = sent[1]

\* an encoded ClaudeCode, and an encoded User(label), were decoded
C19_Witness ==
    /\ EnumDelivered
    /\ decoded[1].ok
    /\ sent[1].variant \in {"ClaudeCode", "User"}

(***************************************************************************)
(* Properties of the defaulted fields.                                     *)
(***************************************************************************)
Delivery == wire # None /\ wire' = None

\* C20: a decoded TaskCreate always has a payload that is a structured
\* object, never null: the empty object when the field is missing, and not
\* null even when the body gives an explicit null; a TaskList decoded from
\* the empty object has limit 50 and no filters; a MemoryQuery decoded with
\* only query set has limit 20 and no filters.
C20_DefaultsNeverNull ==
    [][Delivery =>
        LET event == wire[1].event
            body == wire[1].body
            r == decoded'[1]
        IN  /\ (event = TASK_CREATE /\ r.ok) =>
                  /\ r.msg.payload # JNull
                  /\ r.msg.payload.k = "object"
                  /\ ~Has(body.v, "payload") => r.msg.payload = JObj(EmptyMap)
            /\ (event = TASK_LIST /\ body = JObj(EmptyMap)) =>
                  /\ r.ok
                  /\ r.msg = [limit |-> 50, status |-> None, agent_id |-> None,
                              parent_id |-> None]
            /\ (event = MEMORY_QUERY /\ body = JObj([f \in {"query"} |-> JStr(x1)])) =>
                  /\ r.ok
                  /\ r.msg = [query |-> x1, scope |-> None, category |-> None,
                              agent_id |-> None, tier |-> None,
                              task_id |-> None, limit |-> 20]
    ]_vars

====
